---- MODULE Spec2Model ----
(***************************************************************************)
(* Model of src/track_followers.py (class TwitterFollowerBot).             *)
(*                                                                         *)
(* Text is a sequence of one-character strings, so that parsing and        *)
(* formatting are computed character by character as the code does.        *)
(* Python's None is the integer None == -1 for counts (no modelled input   *)
(* carries a sign, so no count is negative) and the empty tuple for the    *)
(* (change, hours_ago, previous_count) triple.                             *)
(* Time is an integer number of clock ticks.                               *)
(***************************************************************************)
EXTENDS Integers, Sequences, FiniteSets, TLC

None == 0 - 1

Range(s) == {s[i] : i \in 1..Len(s)}

(***************************************************************************)
(* str / int / float primitives used by parse_count                        *)
(***************************************************************************)
DigitChars == <<"0", "1", "2", "3", "4", "5", "6", "7", "8", "9">>

IsDigit(c) == c \in Range(DigitChars)

DigitVal(c) == (CHOOSE d \in 1..10 : DigitChars[d] = c) - 1

AllDigits(s) == \A i \in 1..Len(s) : IsDigit(s[i])

\* str.strip(): drop leading and trailing whitespace
RECURSIVE strip(_)
strip(s) ==
    IF s = <<>> THEN s
    ELSE IF Head(s) = " " THEN strip(Tail(s))
    ELSE IF s[Len(s)] = " " THEN strip(SubSeq(s, 1, Len(s) - 1))
    ELSE s

UpperChar(c) ==
    CASE c = "k" -> "K"
      [] c = "m" -> "M"
      [] c = "b" -> "B"
      [] c = "a" -> "A"
      [] c = "f" -> "F"
      [] c = "o" -> "O"
      [] c = "l" -> "L"
      [] c = "w" -> "W"
      [] c = "e" -> "E"
      [] c = "r" -> "R"
      [] c = "s" -> "S"
      [] OTHER -> c

\* str.upper()
upper(s) == [i \in 1..Len(s) |-> UpperChar(s[i])]

\* str.replace(c, ''): remove every occurrence of the character c
replace(s, c) == SelectSeq(s, LAMBDA x : x # c)

\* value of an all-digit text
RECURSIVE DigitsValue(_)
DigitsValue(s) ==
    IF s = <<>> THEN 0
    ELSE 10 * DigitsValue(SubSeq(s, 1, Len(s) - 1)) + DigitVal(s[Len(s)])

\* int(text): ValueError (None here) unless the text is a non-empty digit run
int(s) == IF s # <<>> /\ AllDigits(s) THEN DigitsValue(s) ELSE None

RECURSIVE Pow10(_)
Pow10(k) == IF k = 0 THEN 1 ELSE 10 * Pow10(k - 1)

\* int(float(text) * mult): text is digits with at most one '.', at least one
\* digit; anything else raises ValueError (None here).  The product is
\* truncated toward zero.  The product is computed in exact decimal
\* arithmetic; binary floating point agrees with it when the fraction is
\* absent or .5, which is what the texts used below have ("2.01K" gives 2009
\* in the program and would give 2010 here).
FloatTimes(s, mult) ==
    LET dots == {i \in 1..Len(s) : s[i] = "."}
        digs == replace(s, ".")
    IN  IF Cardinality(dots) > 1 \/ digs = <<>> \/ ~AllDigits(digs) THEN None
        ELSE LET frac == IF dots = {} THEN 0
                         ELSE Len(s) - (CHOOSE i \in dots : TRUE)
             IN  (DigitsValue(digs) * mult) \div Pow10(frac)

\* variant that leaves the thousands separators in place
parse_count_keeping_commas(count_text) ==
    IF count_text = <<>> THEN None
    ELSE LET t == replace(upper(strip(count_text)), " ")
         IN  IF "K" \in Range(t) THEN FloatTimes(replace(t, "K"), 1000)
             ELSE IF "M" \in Range(t) THEN FloatTimes(replace(t, "M"), 1000000)
             ELSE IF "B" \in Range(t) THEN FloatTimes(replace(t, "B"), 1000000000)
             ELSE int(t)

parse_count(count_text) ==
    IF count_text = <<>> THEN None
    ELSE LET t == replace(replace(upper(strip(count_text)), ","), " ")
         IN  IF "K" \in Range(t) THEN FloatTimes(replace(t, "K"), 1000)
             ELSE IF "M" \in Range(t) THEN FloatTimes(replace(t, "M"), 1000000)
             ELSE IF "B" \in Range(t) THEN FloatTimes(replace(t, "B"), 1000000000)
             ELSE int(t)

\* Python truthiness of a count or None: `if count:`
Truthy(x) == x # None /\ x # 0

(***************************************************************************)
(* f"{n:,}": decimal digits with a comma every three digits from the right *)
(***************************************************************************)
RECURSIVE DigitsOf(_)
DigitsOf(n) ==
    IF n < 10 THEN <<DigitChars[n + 1]>>
    ELSE DigitsOf(n \div 10) \o <<DigitChars[(n % 10) + 1]>>

Pad3(n) ==
    <<DigitChars[(n \div 100) + 1], DigitChars[((n \div 10) % 10) + 1],
      DigitChars[(n % 10) + 1]>>

RECURSIVE FormatComma(_)
FormatComma(n) ==
    IF n < 1000 THEN DigitsOf(n)
    ELSE FormatComma(n \div 1000) \o <<",">> \o Pad3(n % 1000)

(***************************************************************************)
(* Source adapters.  A fetched page is what the adapter reads from it:     *)
(* the HTTP status (FetchRaised when requests.get raised instead) and the  *)
(* texts of the elements each extraction method looks at.                  *)
(***************************************************************************)
FetchRaised == 0

HttpOk == 200

HttpNotFound == 404

SeqMax(s) == CHOOSE m \in Range(s) : \A x \in Range(s) : x <= m

\* re.match(r'^\d{1,3}(,\d{3})*$', text)
IsGrouped(text) ==
    \E k \in 1..3 :
        /\ k <= Len(text)
        /\ \A i \in 1..k : IsDigit(text[i])
        /\ (Len(text) - k) % 4 = 0
        /\ \A i \in (k + 1)..Len(text) :
              IF (i - k) % 4 = 1 THEN text[i] = "," ELSE IsDigit(text[i])

SBMin == 1000

SBMax == 500000000

\* variant without the range check
RECURSIVE SBNumbersNoRange(_)
SBNumbersNoRange(elements) ==
    IF elements = <<>> THEN <<>>
    ELSE LET text == strip(Head(elements))
             num  == int(replace(text, ","))
         IN  (IF IsGrouped(text) THEN <<num>> ELSE <<>>)
             \o SBNumbersNoRange(Tail(elements))

\* one loop of try_social_blade: the in-range numbers of the elements' texts
RECURSIVE SBNumbers(_)
SBNumbers(elements) ==
    IF elements = <<>> THEN <<>>
    ELSE LET text == strip(Head(elements))
             num  == int(replace(text, ","))
         IN  (IF IsGrouped(text) /\ SBMin <= num /\ num <= SBMax
              THEN <<num>> ELSE <<>>) \o SBNumbers(Tail(elements))

try_social_blade(page) ==
    IF page.status = FetchRaised THEN None
    ELSE IF page.status # HttpOk THEN None
    ELSE LET potential_numbers == SBNumbers(page.bold) \o SBNumbers(page.spans)
         IN  IF potential_numbers # <<>> THEN SeqMax(potential_numbers)
             ELSE None

NitterMin == 1000

\* character class [\d,KM.]
InClass(c) == IsDigit(c) \/ c \in {",", "K", "M", "."}

HasWordAt(s, p, w) ==
    /\ p + Len(w) - 1 <= Len(s)
    /\ \A i \in 1..Len(w) : s[p + i - 1] = w[i]

\* re.compile(r'[\d,KM.]+\s*[Ff]ollowers?').search(s)
MatchesFollowers(s) ==
    \E j \in 1..Len(s) :
        /\ InClass(s[j])
        /\ \E p \in (j + 1)..Len(s) :
              /\ \A q \in (j + 1)..(p - 1) : s[q] = " "
              /\ s[p] \in {"F", "f"}
              /\ HasWordAt(s, p + 1, <<"o", "l", "l", "o", "w", "e", "r">>)

\* re.search(r'([\d,KM.]+)', s).group(1): the leftmost maximal run of the class
FirstRun(s) ==
    LET starts == {i \in 1..Len(s) : InClass(s[i])}
    IN  IF starts = {} THEN <<>>
        ELSE LET b == CHOOSE i \in starts : \A k \in starts : i <= k
                 e == CHOOSE i \in b..Len(s) :
                        /\ \A k \in b..i : InClass(s[k])
                        /\ (i = Len(s) \/ ~InClass(s[i + 1]))
             IN  SubSeq(s, b, e)

Plausible(count) == Truthy(count) /\ count > NitterMin

\* Method 1: profile-stat-num spans whose parent text mentions followers
RECURSIVE NitterStats(_)
NitterStats(stats) ==
    IF stats = <<>> THEN None
    ELSE LET count == parse_count(strip(Head(stats).text))
         IN  IF Plausible(count) /\ Head(stats).parent_followers THEN count
             ELSE NitterStats(Tail(stats))

\* Method 2: text nodes of the form "<number> followers"
RECURSIVE NitterStrings(_)
NitterStrings(strings) ==
    IF strings = <<>> THEN None
    ELSE LET count == parse_count(FirstRun(Head(strings)))
         IN  IF MatchesFollowers(Head(strings)) /\ Plausible(count) THEN count
             ELSE NitterStrings(Tail(strings))

\* Method 3: profile-stat divs mentioning follower, with a number span
RECURSIVE NitterDivs(_)
NitterDivs(divs) ==
    IF divs = <<>> THEN None
    ELSE LET d     == Head(divs)
             count == parse_count(strip(d.num))
         IN  IF d.follower /\ d.has_span /\ Plausible(count) THEN count
             ELSE NitterDivs(Tail(divs))

try_nitter_instance(page) ==
    IF page.status = FetchRaised THEN None
    ELSE IF page.status # HttpOk THEN None
    ELSE LET m1 == IF Len(page.stats) >= 2 THEN NitterStats(page.stats) ELSE None
             m2 == NitterStrings(page.strings)
             m3 == NitterDivs(page.divs)
         IN  IF m1 # None THEN m1
             ELSE IF m2 # None THEN m2
             ELSE m3

(***************************************************************************)
(* Time.  The clock counts ticks; TicksPerHour ticks make an hour.  A      *)
(* timestamp is the clock value datetime.now() returned; isoformat() and   *)
(* fromisoformat() of a naive datetime are exact inverses, so the stored   *)
(* text and the instant are the same value here.                           *)
(***************************************************************************)
TicksPerHour == 2

ChangeWindowHours == 24

RetentionDays == 30

HoursPerDay == 24

Hours(h) == h * TicksPerHour

Abs(x) == IF x < 0 THEN 0 - x ELSE x

(***************************************************************************)
(* calculate_change                                                        *)
(***************************************************************************)
\* variant that lets a later record of equal distance replace the closest one
RECURSIVE ClosestFromLe(_, _, _, _, _)
ClosestFromLe(history, target_time, k, closest, min_diff) ==
    IF k > Len(history) THEN closest
    ELSE LET diff == Abs(history[k].timestamp - target_time)
         IN  IF closest = 0 \/ diff <= min_diff
             THEN ClosestFromLe(history, target_time, k + 1, k, diff)
             ELSE ClosestFromLe(history, target_time, k + 1, closest, min_diff)

\* the for loop of calculate_change from record k on; closest = 0 stands for
\* closest_record = None with min_diff = inf
RECURSIVE ClosestFrom(_, _, _, _, _)
ClosestFrom(history, target_time, k, closest, min_diff) ==
    IF k > Len(history) THEN closest
    ELSE LET diff == Abs(history[k].timestamp - target_time)
         IN  IF closest = 0 \/ diff < min_diff
             THEN ClosestFrom(history, target_time, k + 1, k, diff)
             ELSE ClosestFrom(history, target_time, k + 1, closest, min_diff)

\* variant that forgets the 24 hours
TargetTimeNow(now) == now

TargetTime(now) == now - Hours(ChangeWindowHours)

\* index in history of closest_record (0 when the history is empty)
closest_record(history, now) == ClosestFrom(history, TargetTime(now), 1, 0, 0)

NoneResult == [change |-> <<>>, hours_ago |-> <<>>, previous_count |-> <<>>]

\* hours_ago is kept in ticks: (now - timestamp).total_seconds() / 3600 is
\* hours_ago[1] / TicksPerHour
calculate_change(current_count, history, now) ==
    IF history = <<>> THEN NoneResult
    ELSE LET rec == history[closest_record(history, now)]
         IN  [change         |-> <<current_count - rec.followers_count>>,
              hours_ago      |-> <<now - rec.timestamp>>,
              previous_count |-> <<rec.followers_count>>]

(***************************************************************************)
(* History store                                                           *)
(***************************************************************************)
EmptyDoc == [h \in {} |-> <<>>]

AbsentFile == [state |-> "absent", data |-> EmptyDoc]

CorruptFile == [state |-> "corrupt", data |-> EmptyDoc]

\* load_data: the parsed document, {} when the file is absent or json.load raises
load_data(file) == IF file.state = "ok" THEN file.data ELSE EmptyDoc

SaveOutcomes == {"written", "open_raised", "dump_raised"}

\* save_data: the file afterwards.  open(..., 'w') truncates, so a failure
\* after the open leaves a file json.load cannot read.
save_data(file, data, outcome) ==
    CASE outcome = "written"     -> [state |-> "ok", data |-> data]
      [] outcome = "open_raised" -> file
      [] outcome = "dump_raised" -> CorruptFile

\* all_data.get(username, [])
DocGet(doc, username) ==
    IF username \in DOMAIN doc THEN doc[username] ELSE <<>>

\* all_data[username] = user_history
DocSet(doc, username, series) ==
    [h \in (DOMAIN doc) \cup {username} |->
        IF h = username THEN series ELSE doc[h]]

\* variant that stores another count than the acquired one
NewRecordOffByOne(current_count, now) ==
    [followers_count |-> current_count + 1, timestamp |-> now]

NewRecord(current_count, now) ==
    [followers_count |-> current_count, timestamp |-> now]

Cutoff(now) == now - Hours(RetentionDays * HoursPerDay)

\* the list comprehension of run that keeps the last 30 days
Prune(user_history, now) ==
    SelectSeq(user_history, LAMBDA record : record.timestamp > Cutoff(now))

(***************************************************************************)
(* format_tweet.  A tweet is a sequence of pieces, each a string or a text;*)
(* its length is the sum of the pieces' lengths (Python's len counts code  *)
(* points, so an emoji is written as the tuple of its code points).        *)
(***************************************************************************)
TweetLimit == 280

EmojiBarChart == <<"U+1F4CA">>

EmojiChartUp == <<"U+1F4C8">>

EmojiChartDown == <<"U+1F4C9">>

EmojiRightArrow == <<"U+27A1", "U+FE0F">>

RECURSIVE TweetLen(_)
TweetLen(tweet) ==
    IF tweet = <<>> THEN 0 ELSE Len(Head(tweet)) + TweetLen(Tail(tweet))

\* f"{x:.0f}" of x = num / den >= 0: round to nearest, ties to even
RoundHalfEven(num, den) ==
    LET q == num \div den
        r == num % den
    IN  IF 2 * r < den THEN q
        ELSE IF 2 * r > den THEN q + 1
        ELSE IF q % 2 = 0 THEN q ELSE q + 1

ChangeText(change) ==
    IF change > 0 THEN <<"+">> \o FormatComma(Abs(change))
    ELSE IF change < 0 THEN <<"-">> \o FormatComma(Abs(change))
    ELSE <<"0">>

Emoji(change) ==
    IF change > 0 THEN EmojiChartUp
    ELSE IF change < 0 THEN EmojiChartDown
    ELSE EmojiRightArrow

Verb(change) ==
    IF change > 0 THEN "gained"
    ELSE IF change < 0 THEN "lost"
    ELSE "no change"

FirstTweet(username, current_count) ==
    <<EmojiBarChart, " @", username, " currently has ", FormatComma(current_count),
      " followers.\n\n(First tracking)\n\n#FollowerTracker">>

FullTweet(username, current_count, change, hours_ago) ==
    <<Emoji(change), " @", username, " ", Verb(change), " ", ChangeText(change),
      " followers in ~", DigitsOf(RoundHalfEven(hours_ago, TicksPerHour)), "h\n\n",
      EmojiBarChart, " Current: ", FormatComma(current_count), "\n",
      EmojiChartUp, " Change: ", ChangeText(change), "\n\n",
      "#FollowerTracker">>

ShortTweet(username, current_count, change) ==
    <<Emoji(change), " @", username, " ", Verb(change), " ", ChangeText(change),
      " followers\n\n",
      FormatComma(current_count), " (", ChangeText(change), ")\n\n",
      "#FollowerTracker">>

\* change, hours_ago are <<>> for None and <<v>> for a value; previous_count
\* is not used by the code
format_tweet(username, current_count, change, hours_ago, previous_count) ==
    IF change = <<>> THEN FirstTweet(username, current_count)
    ELSE LET tweet == FullTweet(username, current_count, change[1], hours_ago[1])
         IN  IF TweetLen(tweet) > TweetLimit
             THEN ShortTweet(username, current_count, change[1])
             ELSE tweet

(***************************************************************************)
(* post_tweet                                                              *)
(***************************************************************************)
PostOutcomes == {"created", "no_data", "raised"}

\* variant that reports success whatever happened
post_tweet_always(client, outcome) == TRUE

\* client is TRUE when setup_twitter_api built a tweepy client
post_tweet(client, outcome) ==
    IF ~client THEN FALSE
    ELSE outcome = "created"

(***************************************************************************)
(* Texts and pages the adapters are given                                  *)
(***************************************************************************)
Txt87 == <<"8", "7">>

Txt500 == <<"5", "0", "0">>

Txt999 == <<"9", "9", "9">>

Txt1000 == <<"1", ",", "0", "0", "0">>

Txt1234 == <<"1", ",", "2", "3", "4">>

Txt9999 == <<"9", ",", "9", "9", "9">>

Txt50000 == <<"5", "0", ",", "0", "0", "0">>

Txt150000 == <<" ", "1", "5", "0", ",", "0", "0", "0", " ">>

Txt150K == <<"1", "5", "0", "K">>

Txt12p5K == <<"1", "2", ".", "5", "K">>

TxtBadGroup == <<"1", "5", ",", "0", "0">>

Txt500M == <<"5", "0", "0", ",", "0", "0", "0", ",", "0", "0", "0">>

Txt500M1 == <<"5", "0", "0", ",", "0", "0", "0", ",", "0", "0", "1">>

TxtFollowers == <<" ", "F", "o", "l", "l", "o", "w", "e", "r", "s">>

TxtK2Fans == <<"K", "2", " ", "f", "a", "n", "s">>

NoPage(status) ==
    [status |-> status, stats |-> <<>>, strings |-> <<>>, divs |-> <<>>]

NitterStatsPage ==
    [status  |-> HttpOk,
     stats   |-> <<[text |-> Txt1234, parent_followers |-> FALSE],
                   [text |-> Txt150000, parent_followers |-> TRUE]>>,
     strings |-> <<>>,
     divs    |-> <<>>]

NitterSmallPage ==
    [status  |-> HttpOk,
     stats   |-> <<[text |-> Txt87, parent_followers |-> FALSE],
                   [text |-> Txt500, parent_followers |-> TRUE]>>,
     strings |-> <<Txt500 \o TxtFollowers>>,
     divs    |-> <<[follower |-> TRUE, has_span |-> TRUE, num |-> Txt500]>>]

NitterStringsPage ==
    [status  |-> HttpOk,
     stats   |-> <<[text |-> Txt150K, parent_followers |-> TRUE]>>,
     strings |-> <<TxtK2Fans, Txt12p5K \o TxtFollowers>>,
     divs    |-> <<>>]

NitterDivsPage ==
    [status  |-> HttpOk,
     stats   |-> <<>>,
     strings |-> <<TxtK2Fans \o TxtFollowers>>,
     divs    |-> <<[follower |-> FALSE, has_span |-> TRUE, num |-> Txt9999],
                   [follower |-> TRUE, has_span |-> FALSE, num |-> <<>>],
                   [follower |-> TRUE, has_span |-> TRUE, num |-> Txt150K]>>]

NitterPages ==
    {NoPage(FetchRaised), NoPage(HttpNotFound), NitterStatsPage, NitterSmallPage,
     NitterStringsPage, NitterDivsPage}

SBPage(status, bold, spans) == [status |-> status, bold |-> bold, spans |-> spans]

\* the Social Blade pages a run may be served
RunSBPages ==
    {SBPage(FetchRaised, <<>>, <<>>),
     SBPage(HttpNotFound, <<>>, <<>>),
     SBPage(HttpOk, <<Txt999, Txt12p5K>>, <<Txt500M1>>),
     SBPage(HttpOk, <<Txt50000, Txt999>>, <<>>),
     SBPage(HttpOk, <<Txt50000>>, <<Txt150000, TxtBadGroup>>)}

(***************************************************************************)
(* The run: one invocation of the script after another                     *)
(***************************************************************************)
MaxRuns == 3

\* time between two invocations (the trigger is external)
Gaps == {Hours(12), Hours(708)}

Handles == {"elonmusk"}

\* ticks the clock may advance between two reads of datetime.now() in run;
\* the three reads are far less than a tick apart, so at most one tick
\* boundary falls between them
Drift == {0, 1}

nitter_instances ==
    <<"nitter.net", "nitter.it", "nitter.privacydev.net", "nitter.fdn.fr",
      "nitter.kavin.rocks", "nitter.1d4.us", "nitter.42l.fr",
      "nitter.pussthecat.org">>

NoRecord == [followers_count |-> None, timestamp |-> None]

VARIABLES
    clock,            \* datetime.now()
    file,             \* follower_data.json
    runs,             \* invocations started
    pc,               \* position of the current invocation
    target_username,  \* self.target_username
    client,           \* self.client is not None
    i,                \* next nitter instance to try
    calls,            \* adapters invoked by get_follower_count, with results
    current_count,
    all_data,
    loaded,           \* user_history as loaded
    change,           \* (change, hours_ago, previous_count)
    new_record,
    user_history,
    tweet_text,
    result,           \* value returned by run
    loads,            \* load_data calls of this invocation
    saves,            \* save_data calls of this invocation
    file_at_start,    \* the file when the invocation started
    file_after_save,  \* the file when save_data returned
    post_outcome      \* what client.create_tweet did, if it was called

runVars ==
    <<clock, file, runs, pc, target_username, client, i, calls, current_count,
      all_data, loaded, change, new_record, user_history, tweet_text, result,
      loads, saves, file_at_start, file_after_save, post_outcome>>

InitRun ==
    /\ clock = 0
    /\ file = AbsentFile
    /\ runs = 0
    /\ pc = "idle"
    /\ target_username = "elonmusk"
    /\ client = FALSE
    /\ i = 1
    /\ calls = <<>>
    /\ current_count = None
    /\ all_data = EmptyDoc
    /\ loaded = <<>>
    /\ change = NoneResult
    /\ new_record = NoRecord
    /\ user_history = <<>>
    /\ tweet_text = <<>>
    /\ result = FALSE
    /\ loads = 0
    /\ saves = 0
    /\ file_at_start = AbsentFile
    /\ file_after_save = AbsentFile
    /\ post_outcome = "not_called"

\* __init__ and the start of run, some time after the previous invocation
StartRun ==
    /\ pc = "idle"
    /\ runs < MaxRuns
    /\ \E gap \in Gaps, c \in BOOLEAN, u \in Handles :
          /\ clock' = clock + gap
          /\ client' = c
          /\ target_username' = u
    /\ runs' = runs + 1
    /\ pc' = "acquire"
    /\ i' = 1
    /\ calls' = <<>>
    /\ current_count' = None
    /\ all_data' = EmptyDoc
    /\ loaded' = <<>>
    /\ change' = NoneResult
    /\ new_record' = NoRecord
    /\ user_history' = <<>>
    /\ tweet_text' = <<>>
    /\ result' = FALSE
    /\ loads' = 0
    /\ saves' = 0
    /\ file_at_start' = file
    /\ file_after_save' = file
    /\ post_outcome' = "not_called"
    /\ UNCHANGED file

\* variant of the loop pass that goes on to the next instance after a success
TryNitterNoReturn ==
    /\ pc = "acquire"
    /\ i <= Len(nitter_instances)
    /\ \E page \in NitterPages :
          LET count == try_nitter_instance(page)
          IN  /\ calls' = Append(calls, [source |-> nitter_instances[i], count |-> count])
              /\ current_count' = IF Truthy(count) THEN count ELSE current_count
              /\ i' = i + 1
              /\ pc' = "acquire"
    /\ UNCHANGED <<clock, file, runs, target_username, client, all_data, loaded,
                   change, new_record, user_history, tweet_text, result, loads,
                   saves, file_at_start, file_after_save, post_outcome>>

\* get_follower_count, one pass of the loop over nitter_instances
TryNitter ==
    /\ pc = "acquire"
    /\ i <= Len(nitter_instances)
    /\ \E page \in NitterPages :
          LET count == try_nitter_instance(page)
          IN  /\ calls' = Append(calls, [source |-> nitter_instances[i], count |-> count])
              /\ IF Truthy(count)
                 THEN /\ current_count' = count
                      /\ pc' = "acquired"
                      /\ i' = i
                 ELSE /\ current_count' = current_count
                      /\ pc' = "acquire"
                      /\ i' = i + 1
    /\ UNCHANGED <<clock, file, runs, target_username, client, all_data, loaded,
                   change, new_record, user_history, tweet_text, result, loads,
                   saves, file_at_start, file_after_save, post_outcome>>

\* get_follower_count after the loop: Social Blade, then None; run returns
\* False at once when no count was found
TrySocialBlade ==
    /\ pc = "acquire"
    /\ i = Len(nitter_instances) + 1
    /\ \E page \in RunSBPages :
          LET count == try_social_blade(page)
          IN  /\ calls' = Append(calls, [source |-> "socialblade", count |-> count])
              /\ IF Truthy(count)
                 THEN /\ current_count' = count
                      /\ pc' = "acquired"
                      /\ result' = result
                 ELSE /\ current_count' = None
                      /\ pc' = "idle"
                      /\ result' = FALSE
    /\ UNCHANGED <<clock, file, runs, target_username, client, i, all_data, loaded,
                   change, new_record, user_history, tweet_text, loads, saves,
                   file_at_start, file_after_save, post_outcome>>

\* variant that computes the change after appending the new record
LoadAndUpdateAfterAppend ==
    /\ pc = "acquired"
    /\ \E d1 \in Drift, d2 \in Drift :
          /\ d1 + d2 <= 1
          /\ LET data      == load_data(file)
                 history   == DocGet(data, target_username)
                 now_calc  == clock
                 now_rec   == now_calc + d1
                 now_prune == now_rec + d2
                 record    == NewRecord(current_count, now_rec)
                 kept      == Prune(Append(history, record), now_prune)
             IN  /\ loaded' = history
                 /\ change' = calculate_change(current_count,
                                               Append(history, record), now_rec)
                 /\ new_record' = record
                 /\ user_history' = kept
                 /\ all_data' = DocSet(data, target_username, kept)
                 /\ clock' = now_prune
    /\ loads' = loads + 1
    /\ i' = 1
    /\ calls' = <<>>
    /\ pc' = "save"
    /\ UNCHANGED <<file, runs, target_username, client, current_count,
                   tweet_text, result, saves, file_at_start, file_after_save, post_outcome>>

\* run, from load_data to the document handed to save_data.  Each of the
\* three datetime.now() reads may see the clock advanced.
LoadAndUpdate ==
    /\ pc = "acquired"
    /\ \E d1 \in Drift, d2 \in Drift :
          /\ d1 + d2 <= 1
          /\ LET data      == load_data(file)
                 history   == DocGet(data, target_username)
                 now_calc  == clock
                 now_rec   == now_calc + d1
                 now_prune == now_rec + d2
                 record    == NewRecord(current_count, now_rec)
                 kept      == Prune(Append(history, record), now_prune)
             IN  /\ loaded' = history
                 /\ change' = calculate_change(current_count, history, now_calc)
                 /\ new_record' = record
                 /\ user_history' = kept
                 /\ all_data' = DocSet(data, target_username, kept)
                 /\ clock' = now_prune
    /\ loads' = loads + 1
    /\ i' = 1
    /\ calls' = <<>>
    /\ pc' = "save"
    /\ UNCHANGED <<file, runs, target_username, client, current_count,
                   tweet_text, result, saves, file_at_start, file_after_save, post_outcome>>

\* self.save_data(all_data)
SaveData ==
    /\ pc = "save"
    /\ \E outcome \in SaveOutcomes :
          /\ file' = save_data(file, all_data, outcome)
          /\ file_after_save' = save_data(file, all_data, outcome)
    /\ saves' = saves + 1
    /\ pc' = "post"
    /\ UNCHANGED <<clock, runs, target_username, client, i, calls, current_count,
                   all_data, loaded, change, new_record, user_history, tweet_text,
                   result, loads, file_at_start, post_outcome>>

\* format_tweet, post_tweet and the return of run
FormatAndPost ==
    /\ pc = "post"
    /\ tweet_text' = format_tweet(target_username, current_count, change.change,
                                  change.hours_ago, change.previous_count)
    /\ \E outcome \in PostOutcomes :
          /\ result' = post_tweet(client, outcome)
          /\ post_outcome' = IF client THEN outcome ELSE "not_called"
    /\ pc' = "idle"
    /\ UNCHANGED <<clock, file, runs, target_username, client, i, calls,
                   current_count, all_data, loaded, change, new_record,
                   user_history, loads, saves, file_at_start, file_after_save>>

(***************************************************************************)
(* parse_count applied to formatted numbers and to given texts             *)
(***************************************************************************)
MaxN == 1100

ParseNumbers ==
    (0..MaxN) \cup
    {a * 1000000 + b * 1000 + c : a \in 0..2, b \in {0, 7, 999}, c \in {0, 45, 999}}
    \cup {2147483647}

ParseTexts ==
    {<<>>, <<" ">>, <<"a", "b", "c">>, <<"0">>, Txt1234, Txt150000, Txt12p5K,
     Txt150K, <<"3", "M">>, <<"2", "b">>, <<"K">>, <<"1", ".", "2", ".", "5", "K">>,
     <<"1", "K", "M">>, TxtBadGroup}

VARIABLES
    p_n,         \* the integer that was formatted, None for a given text
    count_text,  \* argument of parse_count
    parsed,      \* its result
    p_pc

parseVars == <<p_n, count_text, parsed, p_pc>>

ParseIdle ==
    /\ p_n = None
    /\ count_text = <<>>
    /\ parsed = None
    /\ p_pc = "idle"

InitParse ==
    /\ p_n \in ParseNumbers
    /\ count_text = <<>>
    /\ parsed = None
    /\ p_pc = "start"

\* f"{n:,}"
FormatNumber ==
    /\ p_pc = "start"
    /\ count_text' = FormatComma(p_n)
    /\ p_pc' = "text"
    /\ UNCHANGED <<p_n, parsed>>

GiveText ==
    /\ p_pc = "start"
    /\ \E t \in ParseTexts : count_text' = t
    /\ p_n' = None
    /\ p_pc' = "text"
    /\ UNCHANGED parsed

ParseCount ==
    /\ p_pc = "text"
    /\ parsed' = parse_count(count_text)
    /\ p_pc' = "parsed"
    /\ UNCHANGED <<p_n, count_text>>

(***************************************************************************)
(* try_social_blade applied to fetched pages                               *)
(***************************************************************************)
MaxElements == 2

SBTexts ==
    {Txt999, Txt1000, Txt50000, Txt150000, Txt500M, Txt500M1, Txt12p5K, TxtBadGroup}

SeqsUpTo(S, n) == UNION {[1..k -> S] : k \in 0..n}

SBPages ==
    {SBPage(s, b, sp) : s \in {FetchRaised, HttpNotFound, HttpOk},
                        b \in SeqsUpTo(SBTexts, MaxElements),
                        sp \in SeqsUpTo(SBTexts, 1)}

VARIABLES
    sb_page,   \* what the Social Blade fetch returned
    sb_count,  \* result of try_social_blade
    sb_pc

sbVars == <<sb_page, sb_count, sb_pc>>

SBIdle ==
    /\ sb_page = SBPage(FetchRaised, <<>>, <<>>)
    /\ sb_count = None
    /\ sb_pc = "idle"

InitSB ==
    /\ sb_page \in SBPages
    /\ sb_count = None
    /\ sb_pc = "fetched"

ExtractSocialBlade ==
    /\ sb_pc = "fetched"
    /\ sb_count' = try_social_blade(sb_page)
    /\ sb_pc' = "returned"
    /\ UNCHANGED sb_page

(***************************************************************************)
(* calculate_change applied to series as run leaves them: append-only, so  *)
(* with non-decreasing timestamps                                          *)
(***************************************************************************)
MaxSamples == 3

SampleTimes == {0, Hours(23), Hours(24), Hours(25), Hours(47)}

SampleCounts == {100, 150}

ChangeNows == {Hours(48), Hours(48) + 1}

Samples == [followers_count : SampleCounts, timestamp : SampleTimes]

Sorted(series) ==
    \A k \in 1..(Len(series) - 1) : series[k].timestamp <= series[k + 1].timestamp

SeriesSet == {h \in SeqsUpTo(Samples, MaxSamples) : Sorted(h)}

VARIABLES
    c_history,  \* argument history
    c_current,  \* argument current_count
    c_now,      \* datetime.now() inside calculate_change
    c_out,      \* the returned triple
    c_pc

changeVars == <<c_history, c_current, c_now, c_out, c_pc>>

ChangeIdle ==
    /\ c_history = <<>>
    /\ c_current = 0
    /\ c_now = 0
    /\ c_out = NoneResult
    /\ c_pc = "idle"

InitChange ==
    /\ c_history \in SeriesSet
    /\ c_current = 160
    /\ c_now \in ChangeNows
    /\ c_out = NoneResult
    /\ c_pc = "called"

CalculateChange ==
    /\ c_pc = "called"
    /\ c_out' = calculate_change(c_current, c_history, c_now)
    /\ c_pc' = "returned"
    /\ UNCHANGED <<c_history, c_current, c_now>>

(***************************************************************************)
(* format_tweet applied to given arguments                                 *)
(***************************************************************************)
HandleOfLength(n) == [k \in 1..n |-> "x"]

FormatHandles == {HandleOfLength(n) : n \in {8, 15, 200, 230, 300}}

FormatCounts == {0, 999, 200000, 500000000}

FormatChanges == {<<>>, <<0>>, <<5000>>, <<0 - 5000>>, <<499999000>>}

\* hours_ago in ticks
FormatHours == {0, Hours(1) - 1, Hours(23) + 1, Hours(24), Hours(720)}

VARIABLES
    f_username,
    f_current,
    f_change,
    f_hours,
    f_tweet,  \* result of format_tweet
    f_pc

formatVars == <<f_username, f_current, f_change, f_hours, f_tweet, f_pc>>

FormatIdle ==
    /\ f_username = <<>>
    /\ f_current = 0
    /\ f_change = <<>>
    /\ f_hours = 0
    /\ f_tweet = <<>>
    /\ f_pc = "idle"

InitFormat ==
    /\ f_username \in FormatHandles
    /\ f_current \in FormatCounts
    /\ f_change \in FormatChanges
    /\ f_hours \in FormatHours
    /\ f_tweet = <<>>
    /\ f_pc = "called"

FormatTweet ==
    /\ f_pc = "called"
    /\ f_tweet' = format_tweet(f_username, f_current, f_change,
                               IF f_change = <<>> THEN <<>> ELSE <<f_hours>>,
                               IF f_change = <<>> THEN <<>>
                               ELSE <<f_current - f_change[1]>>)
    /\ f_pc' = "returned"
    /\ UNCHANGED <<f_username, f_current, f_change, f_hours>>

(***************************************************************************)
(* Specifications                                                          *)
(***************************************************************************)
vars == <<runVars, parseVars, sbVars, changeVars, formatVars>>

Init == InitRun /\ ParseIdle /\ SBIdle /\ ChangeIdle /\ FormatIdle

Next ==
    \/ StartRun /\ UNCHANGED <<parseVars, sbVars, changeVars, formatVars>>
    \/ TryNitter /\ UNCHANGED <<parseVars, sbVars, changeVars, formatVars>>
    \/ TrySocialBlade /\ UNCHANGED <<parseVars, sbVars, changeVars, formatVars>>
    \/ LoadAndUpdate /\ UNCHANGED <<parseVars, sbVars, changeVars, formatVars>>
    \/ SaveData /\ UNCHANGED <<parseVars, sbVars, changeVars, formatVars>>
    \/ FormatAndPost /\ UNCHANGED <<parseVars, sbVars, changeVars, formatVars>>

\* the script invoked again and again
Spec == Init /\ [][Next]_vars

NextParse ==
    \/ FormatNumber /\ UNCHANGED <<runVars, sbVars, changeVars, formatVars>>
    \/ GiveText /\ UNCHANGED <<runVars, sbVars, changeVars, formatVars>>
    \/ ParseCount /\ UNCHANGED <<runVars, sbVars, changeVars, formatVars>>

InitSpecParse == InitRun /\ InitParse /\ SBIdle /\ ChangeIdle /\ FormatIdle

\* parse_count on its own
SpecParse == InitSpecParse /\ [][NextParse]_vars

NextSB == ExtractSocialBlade /\ UNCHANGED <<runVars, parseVars, changeVars, formatVars>>

InitSpecSocialBlade == InitRun /\ ParseIdle /\ InitSB /\ ChangeIdle /\ FormatIdle

\* try_social_blade on its own
SpecSocialBlade == InitSpecSocialBlade /\ [][NextSB]_vars

NextChange == CalculateChange /\ UNCHANGED <<runVars, parseVars, sbVars, formatVars>>

InitSpecChange == InitRun /\ ParseIdle /\ SBIdle /\ InitChange /\ FormatIdle

\* calculate_change on its own
SpecChange == InitSpecChange /\ [][NextChange]_vars

NextFormat == FormatTweet /\ UNCHANGED <<runVars, parseVars, sbVars, changeVars>>

InitSpecFormat == InitRun /\ ParseIdle /\ SBIdle /\ ChangeIdle /\ InitFormat

\* format_tweet on its own
SpecFormat == InitSpecFormat /\ [][NextFormat]_vars

(***************************************************************************)
(* Properties                                                              *)
(***************************************************************************)
\* run has returned
Returned == pc = "idle" /\ runs > 0

Sources == nitter_instances \o <<"socialblade">>

\* C1: get_follower_count invokes the adapters in their listed order (the
\* Nitter mirrors, then Social Blade); when adapter k is the first to return
\* a value it returns exactly that value and invokes no adapter after k; it
\* returns None exactly when every adapter returned None.
C1_FirstNonNoneInOrder ==
    /\ Len(calls) <= Len(Sources)
    /\ \A k \in 1..Len(calls) : calls[k].source = Sources[k]
    /\ pc = "acquire" => \A k \in 1..Len(calls) : calls[k].count = None
    /\ pc = "acquired" =>
          /\ calls # <<>>
          /\ current_count # None
          /\ calls[Len(calls)].count = current_count
          /\ \A k \in 1..(Len(calls) - 1) : calls[k].count = None
    /\ (Returned /\ current_count = None) =>
          /\ Len(calls) = Len(Sources)
          /\ \A k \in 1..Len(calls) : calls[k].count = None

\* the third mirror is the first to answer
C1_Witness == pc = "acquired" /\ Len(calls) = 3 /\ current_count = 12500

\* C2 as amended: try_social_blade never returns a count outside
\* 1,000..500,000,000; a candidate of 999 is rejected and never the result,
\* while candidates of 50,000 and 150,000 are accepted.
C2_SocialBladeRange ==
    sb_pc = "returned" =>
        LET texts == Range(sb_page.bold) \cup Range(sb_page.spans)
        IN  /\ sb_count = None \/ (1000 <= sb_count /\ sb_count <= 500000000)
            /\ sb_count # 999
            /\ (sb_page.status = 200 /\ Txt50000 \in texts) =>
                  (sb_count # None /\ sb_count >= 50000)
            /\ (sb_page.status = 200 /\ Txt150000 \in texts) =>
                  (sb_count # None /\ sb_count >= 150000)
            /\ (texts \subseteq {Txt999, Txt500M1, Txt12p5K, TxtBadGroup}) =>
                  sb_count = None

\* a page whose only in-range number is 50,000
C2_Witness ==
    /\ sb_pc = "returned"
    /\ sb_page = SBPage(HttpOk, <<Txt50000, Txt999>>, <<>>)
    /\ sb_count = 50000

\* C2 as stated: try_social_blade never returns a count outside
\* 100,000..500,000,000, and 50,000 is never its result.
C2_SocialBladeFloor100k ==
    sb_pc = "returned" =>
        /\ sb_count = None \/ (100000 <= sb_count /\ sb_count <= 500000000)
        /\ sb_count # 50000

\* C3: for a non-empty series calculate_change selects a sample at minimum
\* absolute distance from now - 24h and returns current_count minus its count,
\* its count, and now minus its timestamp; series [(t-48h,100),(t-23h,150)]
\* with current 160 gives delta 10.
C3_NearestSampleAndDelta ==
    (c_pc = "returned" /\ c_history # <<>>) =>
        /\ \E k \in 1..Len(c_history) :
              /\ \A j \in 1..Len(c_history) :
                    Abs(c_history[k].timestamp - (c_now - 24 * TicksPerHour))
                        <= Abs(c_history[j].timestamp - (c_now - 24 * TicksPerHour))
              /\ c_out = [change         |-> <<c_current - c_history[k].followers_count>>,
                          hours_ago      |-> <<c_now - c_history[k].timestamp>>,
                          previous_count |-> <<c_history[k].followers_count>>]
        /\ (/\ c_now = 48 * TicksPerHour
            /\ c_history = <<[followers_count |-> 100, timestamp |-> 0],
                             [followers_count |-> 150,
                              timestamp |-> 25 * TicksPerHour]>>) =>
              c_out.change = <<10>>

\* the series of the example
C3_Witness ==
    /\ c_pc = "returned"
    /\ c_now = 48 * TicksPerHour
    /\ c_history = <<[followers_count |-> 100, timestamp |-> 0],
                     [followers_count |-> 150, timestamp |-> 25 * TicksPerHour]>>
    /\ c_out = [change |-> <<10>>, hours_ago |-> <<23 * TicksPerHour>>,
                previous_count |-> <<150>>]

\* C4 as stated: the series handed to save_data is the loaded series plus the
\* new sample without exactly the samples older than 30 days, a sample that is
\* exactly 30 days old being kept, in the original order.
C4_PruneKeepsThirtyDaysOld ==
    pc = "save" =>
        user_history =
            SelectSeq(Append(loaded, new_record),
                      LAMBDA record : clock - record.timestamp <= 30 * 24 * TicksPerHour)

\* C5: when run returns, the history was updated (one load, the new sample
\* with the acquired count appended after what is kept of the loaded series,
\* one save_data call with that document) if and only if a count was acquired,
\* whatever publishing did; without a count nothing is loaded, appended or
\* saved; publishing leaves the file as save_data left it.
C5_HistoryUpdatedIffAcquired ==
    Returned =>
        IF current_count # None
        THEN /\ loads = 1
             /\ saves = 1
             /\ user_history # <<>>
             /\ user_history[Len(user_history)].followers_count = current_count
             /\ user_history[Len(user_history)].timestamp \in {clock - 1, clock}
             /\ \E k \in 1..(Len(loaded) + 1) :
                   SubSeq(user_history, 1, Len(user_history) - 1)
                       = SubSeq(loaded, k, Len(loaded))
             /\ DocGet(all_data, target_username) = user_history
             /\ file_after_save \in
                   {[state |-> "ok", data |-> all_data], file_at_start, CorruptFile}
             /\ file = file_after_save
        ELSE /\ loads = 0
             /\ saves = 0
             /\ user_history = <<>>
             /\ file = file_at_start

\* the send raised, and the file holds the second sample all the same
C5_Witness ==
    /\ Returned
    /\ current_count # None
    /\ client
    /\ post_outcome = "raised"
    /\ ~result
    /\ file.state = "ok"
    /\ Len(DocGet(file.data, target_username)) = 2
    /\ file # file_at_start

\* C6: run returns True if and only if a count was acquired and the send
\* succeeded; no count, no client, or a failed send make it False, and the
\* history store failing to load or save changes nothing of this.
C6_TrueIffAcquiredAndPosted ==
    Returned =>
        (result <=> (current_count # None /\ client /\ post_outcome = "created"))

\* True although the store could be neither read nor written
C6_Witness ==
    /\ Returned
    /\ result
    /\ file_at_start = CorruptFile
    /\ file = CorruptFile

\* C7 as stated: the text format_tweet returns is never longer than 280.
C7_TweetWithinLimit == f_pc = "returned" => TweetLen(f_tweet) <= 280

\* C8: parse_count of the comma-grouped decimal text of n is n, 0 included,
\* and parse_count of the empty text is None.
C8_ParseRoundTrip ==
    p_pc = "parsed" =>
        /\ p_n # None => parsed = p_n
        /\ count_text = <<>> => parsed = None

\* "1,045" parsed back
C8_Witness ==
    /\ p_pc = "parsed"
    /\ p_n = 1045
    /\ count_text = <<"1", ",", "0", "4", "5">>
    /\ parsed = 1045

\* C9: among the samples at minimum distance from now - 24h calculate_change
\* takes the first in series order.
C9_TieSelectsEarlier ==
    (c_pc = "returned" /\ c_history # <<>>) =>
        LET Dist(j) == Abs(c_history[j].timestamp - (c_now - 24 * TicksPerHour))
            first   == CHOOSE k \in 1..Len(c_history) :
                          /\ \A j \in 1..Len(c_history) : Dist(k) <= Dist(j)
                          /\ \A j \in 1..(k - 1) : Dist(j) > Dist(k)
        IN  /\ c_out.previous_count = <<c_history[first].followers_count>>
            /\ c_out.hours_ago = <<c_now - c_history[first].timestamp>>
            /\ c_out.change = <<c_current - c_history[first].followers_count>>

\* samples at t-25h and t-23h, the earlier one taken
C9_Witness ==
    /\ c_pc = "returned"
    /\ c_now = 48 * TicksPerHour
    /\ c_history = <<[followers_count |-> 100, timestamp |-> 23 * TicksPerHour],
                     [followers_count |-> 150, timestamp |-> 25 * TicksPerHour]>>
    /\ c_out.previous_count = <<100>>

\* C10: the change is computed from the series as loaded: the baseline is a
\* sample of the loaded series, older than the sample of this run; with no
\* loaded sample (first observation, absent or unreadable store) the result is
\* the None triple and the first-tracking message, and the new sample is
\* appended and handed to save_data all the same.
C10_BaselineFromLoadedSeries ==
    (pc \in {"save", "post"} \/ (Returned /\ current_count # None)) =>
        /\ file_at_start.state # "ok" => loaded = <<>>
        /\ IF loaded = <<>>
           THEN change = NoneResult
           ELSE \E k \in 1..Len(loaded), d \in {0, 1} :
                   /\ loaded[k].timestamp < new_record.timestamp
                   /\ change =
                        [change         |-> <<current_count - loaded[k].followers_count>>,
                         hours_ago      |-> <<new_record.timestamp - d
                                               - loaded[k].timestamp>>,
                         previous_count |-> <<loaded[k].followers_count>>]
        /\ user_history # <<>>
        /\ user_history[Len(user_history)] = new_record
        /\ Returned =>
              /\ saves = 1
              /\ loaded = <<>> <=> tweet_text[4] = " currently has "

\* two loaded samples, the later one the baseline
C10_Witness ==
    /\ pc = "post"
    /\ Len(loaded) = 2
    /\ loaded[1].followers_count # loaded[2].followers_count
    /\ change.previous_count = <<loaded[2].followers_count>>

====
